---- MODULE Spec2Model ----
(***************************************************************************)
(* A model of app/static/js/main.js: the async function sendMessage, the   *)
(* page elements it reads and writes, the fetch request it issues, and the *)
(* two places where it suspends (await fetch, await res.json()).           *)
(*                                                                         *)
(* Texts are sequences of one-character strings, so that JSON.stringify    *)
(* and JSON.parse are modelled by what they do to the characters.          *)
(***************************************************************************)
EXTENDS Integers, Sequences, FiniteSets, TLC

\* ------------------------------------------------------------------ bounds
\* The number of times sendMessage is invoked in one behaviour.
MaxCalls == 2

\* ------------------------------------------------------------------- texts
\* The values the input field takes: the empty text, a plain character, and
\* a text of the two characters JSON.stringify has to escape.
Texts == {<<>>, <<"a">>, <<"\\", "\"">>}

\* The literal of line 18.
ErrorText ==
  <<"A","n"," ","e","r","r","o","r"," ","o","c","c","u","r","r","e","d"," ",
    "w","h","i","l","e"," ","s","e","n","d","i","n","g"," ","t","h","e"," ",
    "m","e","s","s","a","g","e",".">>

\* The property names the code uses: { message: ... } and data.response.
MessageKey == <<"m","e","s","s","a","g","e">>
ResponseKey == <<"r","e","s","p","o","n","s","e">>

\* ------------------------------------------------------------ JS values
\* A JS value as JSON.parse can produce it (null, a string, an object with
\* its members in order), and undefined, which a property read can produce.
JNull == [t |-> "null", s |-> <<>>, f |-> <<>>]
JUndefined == [t |-> "undefined", s |-> <<>>, f |-> <<>>]
JStr(s) == [t |-> "string", s |-> s, f |-> <<>>]
JObj(f) == [t |-> "object", s |-> <<>>, f |-> f]
Member(k, v) == [k |-> k, v |-> v]

\* ---------------------------------------------------------- JSON.stringify
\* QuoteJSONString: the quoted form of a string, with " and \ escaped.
RECURSIVE EscapeText(_)
EscapeText(s) ==
  IF s = <<>> THEN <<>>
  ELSE (IF Head(s) \in {"\"", "\\"} THEN <<"\\", Head(s)>> ELSE <<Head(s)>>)
       \o EscapeText(Tail(s))

QuoteText(s) == <<"\"">> \o EscapeText(s) \o <<"\"">>

RECURSIVE JSONStringify(_)
RECURSIVE StringifyMembers(_)
StringifyMembers(f) ==
  IF f = <<>> THEN <<>>
  ELSE QuoteText(Head(f).k) \o <<":">> \o JSONStringify(Head(f).v)
       \o (IF Tail(f) = <<>> THEN <<>> ELSE <<",">> \o StringifyMembers(Tail(f)))

JSONStringify(v) ==
  CASE v.t = "null" -> <<"n","u","l","l">>
    [] v.t = "string" -> QuoteText(v.s)
    [] v.t = "object" -> <<"{">> \o StringifyMembers(v.f) \o <<"}">>

\* -------------------------------------------------------------- JSON.parse
\* The result of a parsing step: the value read and the index after it.
ParseFail == [ok |-> FALSE, v |-> JNull, i |-> 0]
ParseOk(v, i) == [ok |-> TRUE, v |-> v, i |-> i]

\* The character at index i, or "" past the end of the text.
At(s, i) == IF i >= 1 /\ i <= Len(s) THEN s[i] ELSE ""

\* The rest of a string literal whose opening quote was read; the escapes
\* of the modelled characters, \" and \\, are decoded and any other escape
\* is a syntax error.
RECURSIVE ScanString(_, _, _)
ScanString(s, i, acc) ==
  IF i > Len(s) THEN ParseFail
  ELSE IF s[i] = "\"" THEN ParseOk(JStr(acc), i + 1)
  ELSE IF s[i] = "\\"
    THEN IF At(s, i + 1) \in {"\"", "\\"}
         THEN ScanString(s, i + 2, Append(acc, s[i + 1]))
         ELSE ParseFail
  ELSE ScanString(s, i + 1, Append(acc, s[i]))

RECURSIVE ParseValue(_, _)
RECURSIVE ParseMembers(_, _, _)
ParseMembers(s, i, acc) ==
  IF At(s, i) # "\"" THEN ParseFail
  ELSE LET k == ScanString(s, i + 1, <<>>) IN
    IF ~k.ok \/ At(s, k.i) # ":" THEN ParseFail
    ELSE LET v == ParseValue(s, k.i + 1) IN
      IF ~v.ok THEN ParseFail
      ELSE LET members == Append(acc, Member(k.v.s, v.v)) IN
        IF At(s, v.i) = "," THEN ParseMembers(s, v.i + 1, members)
        ELSE IF At(s, v.i) = "}" THEN ParseOk(JObj(members), v.i + 1)
        ELSE ParseFail

ParseValue(s, i) ==
  CASE At(s, i) = "n" ->
         IF i + 3 <= Len(s) /\ SubSeq(s, i, i + 3) = <<"n","u","l","l">>
         THEN ParseOk(JNull, i + 4) ELSE ParseFail
    [] At(s, i) = "\"" -> ScanString(s, i + 1, <<>>)
    [] At(s, i) = "{" ->
         IF At(s, i + 1) = "}" THEN ParseOk(JObj(<<>>), i + 2)
         ELSE ParseMembers(s, i + 1, <<>>)
    [] OTHER -> ParseFail

\* JSON.parse: the whole text must be one value; anything else is a
\* SyntaxError (ok = FALSE).
JSONParse(s) ==
  LET r == ParseValue(s, 1) IN
    IF r.ok /\ r.i = Len(s) + 1 THEN r ELSE ParseFail

\* ------------------------------------------------- property read, ToString
\* The result of evaluating an expression: a value, or a thrown error.
Normal(v) == [threw |-> FALSE, v |-> v]
Throw == [threw |-> TRUE, v |-> <<>>]

HasOwn(o, key) == o.t = "object" /\ \E n \in 1..Len(o.f) : o.f[n].k = key

\* A variant of the property read that rejects an object without the member.
GetPropertyStrict(o, key) ==
  IF o.t \in {"null", "undefined"} \/ ~HasOwn(o, key) THEN Throw
  ELSE LET last == CHOOSE n \in 1..Len(o.f) :
                     /\ o.f[n].k = key
                     /\ \A m \in (n + 1)..Len(o.f) : o.f[m].k # key
       IN Normal(o.f[last].v)

\* o.key for a parsed value: the last member of that name (JSON.parse keeps
\* the last duplicate), undefined when there is none or o is a string, and
\* a TypeError when o is null.
GetProperty(o, key) ==
  IF o.t \in {"null", "undefined"} THEN Throw
  ELSE IF HasOwn(o, key)
    THEN LET last == CHOOSE n \in 1..Len(o.f) :
                       /\ o.f[n].k = key
                       /\ \A m \in (n + 1)..Len(o.f) : o.f[m].k # key
         IN Normal(o.f[last].v)
  ELSE Normal(JUndefined)

ToStringKey == <<"t","o","S","t","r","i","n","g">>
UndefinedText == <<"u","n","d","e","f","i","n","e","d">>
ObjectText == <<"[","o","b","j","e","c","t"," ","O","b","j","e","c","t","]">>

\* The conversion the innerText setter applies to the assigned value: null
\* becomes the empty text, undefined "undefined", an object the result of
\* its toString; an object whose own toString member shadows the inherited
\* method has nothing callable to convert it, and the conversion throws.
ToDOMString(v) ==
  CASE v.t = "string" -> Normal(v.s)
    [] v.t = "null" -> Normal(<<>>)
    [] v.t = "undefined" -> Normal(UndefinedText)
    [] v.t = "object" ->
         IF HasOwn(v, ToStringKey) THEN Throw ELSE Normal(ObjectText)

\* ------------------------------------------------------------------- state
VARIABLES
  dom,       \* the page: the input's value and the output's innerText
  calls,     \* the invocations of sendMessage, in the order they were made
  requests,  \* the requests handed to fetch that are in flight
  order      \* the invocations that returned, in the order they returned

vars == <<dom, calls, requests, order>>

\* ------------------------------------------------------------- the server
\* The endpoint is outside the repository: it answers a request with any
\* status and any body, or the request fails in the network.
Statuses == {200, 500}

ObjectWith(key, v) == JObj(<<Member(key, v)>>)

\* The texts the server answers with.
ResponseTexts == {<<"a">>, <<"\"">>}

\* {"response":<r>} as the server serialises it.
BodyWithText(r) == JSONStringify(ObjectWith(ResponseKey, JStr(r)))

\* {} : an object without a response member.
EmptyObjectBody == <<"{", "}">>

\* null : valid JSON that is not an object.
NullBody == <<"n","u","l","l">>

\* {"response":{"toString":null}} : a response member that is an object
\* with nothing callable to convert it to text.
UnconvertibleBody ==
  JSONStringify(ObjectWith(ResponseKey, ObjectWith(ToStringKey, JNull)))

\* Bodies that are not JSON: an HTML page, and {"response":"a cut short.
MalformedBodies ==
  { <<"<">>,
    SubSeq(BodyWithText(<<"a">>), 1, Len(BodyWithText(<<"a">>)) - 2) }

Bodies ==
  {BodyWithText(r) : r \in ResponseTexts}
    \cup {EmptyObjectBody, NullBody, UnconvertibleBody}
    \cup MalformedBodies

\* ------------------------------------------------------------ sendMessage
\* A variant of line 13 that builds the body by concatenation, without
\* escaping the text.
RequestBodyConcat(message) ==
  <<"{", "\"">> \o MessageKey \o <<"\"", ":", "\"">> \o message \o <<"\"", "}">>

\* Line 13: the body handed to fetch.
RequestBody(message) == JSONStringify(ObjectWith(MessageKey, JStr(message)))

\* Lines 8-14: the request fetch is called with, for call i.
Request(i, message) ==
  [ by |-> i,
    url |-> "/api/chat",
    method |-> "POST",
    contentType |-> "application/json",
    body |-> RequestBody(message) ]

\* A variant of line 15 that treats a status outside 2xx as a failure
\* (if (!res.ok) throw ...).
Line15CheckStatus(res) ==
  LET parsed == JSONParse(res.body) IN
    IF res.status \in 200..299 /\ parsed.ok THEN Normal(parsed.v) ELSE Throw

\* Line 15: res.json() of a body that was read to its end; the status of
\* the response is not looked at.
Line15(res) ==
  LET parsed == JSONParse(res.body) IN
    IF parsed.ok THEN Normal(parsed.v) ELSE Throw

\* A variant of line 16 that reads data.message.
Line16TextOtherKey(data) ==
  LET field == GetProperty(data, MessageKey) IN
    IF field.threw THEN Throw ELSE ToDOMString(field.v)

\* Line 16, right-hand side: data.response as the text the setter stores.
Line16Text(data) ==
  LET field == GetProperty(data, ResponseKey) IN
    IF field.threw THEN Throw ELSE ToDOMString(field.v)

\* A variant of line 16 that adds the text to what is shown.
Line16AssignAppend(d, text) == [d EXCEPT !.response = @ \o text]

\* A variant of line 16 that also clears the input field.
Line16AssignClearInput(d, text) == [d EXCEPT !.response = text, !.message = <<>>]

\* Line 16, the assignment to responseArea.innerText.
Line16Assign(d, text) == [d EXCEPT !.response = text]

\* A variant of the catch block that swallows the error and shows nothing.
CatchBlockSilent(d) == [dom |-> d, wrote |-> FALSE, threw |-> FALSE]

\* A variant of the catch block that passes the error on to the caller.
CatchBlockRethrow(d) == [dom |-> d, wrote |-> FALSE, threw |-> TRUE]

\* Lines 17-19: the catch block; it assigns the literal and does not throw.
CatchBlock(d) ==
  [dom |-> [d EXCEPT !.response = ErrorText], wrote |-> TRUE, threw |-> FALSE]

\* What is recorded of a response: its status, and its body once read.
NoResponse == [status |-> 0, body |-> <<>>]

\* A call that has just been made (lines 2-14 ran, line 8 is awaited).
NewCall ==
  [ pc |-> "fetch", net |-> "pending", res |-> NoResponse, read |-> "pending",
    path |-> "none", writes |-> 0, written |-> <<>>, settled |-> "pending" ]

Init ==
  /\ dom = [message |-> <<>>, response |-> <<>>]
  /\ calls = <<>>
  /\ requests = {}
  /\ order = <<>>

\* The user edits the input field.
TypeInput(text) ==
  /\ text # dom.message
  /\ dom' = [dom EXCEPT !.message = text]
  /\ UNCHANGED <<calls, requests, order>>

\* A variant of lines 2-14 that issues no request when an equal one is
\* already in flight.
SendMessageDeduplicated ==
  /\ Len(calls) < MaxCalls
  /\ LET message == dom.message
         same == {r \in requests : r.body = RequestBody(message)}
     IN requests' = IF same = {} THEN requests \cup {Request(Len(calls) + 1, message)}
                     ELSE requests
  /\ calls' = Append(calls, NewCall)
  /\ UNCHANGED <<dom, order>>

\* A variant of lines 2-14 that shows a placeholder while the request is
\* pending.
SendMessagePlaceholder ==
  /\ Len(calls) < MaxCalls
  /\ LET message == dom.message IN
       requests' = requests \cup {Request(Len(calls) + 1, message)}
  /\ calls' = Append(calls, NewCall)
  /\ dom' = [dom EXCEPT !.response = <<".">>]
  /\ UNCHANGED order

\* Lines 2-14: sendMessage is invoked; it reads the input's value, calls
\* fetch and suspends at the await of line 8.
SendMessage ==
  /\ Len(calls) < MaxCalls
  /\ LET message == dom.message IN
       requests' = requests \cup {Request(Len(calls) + 1, message)}
  /\ calls' = Append(calls, NewCall)
  /\ UNCHANGED <<dom, order>>

\* Call i leaves the try statement with completion c (the text to assign,
\* or a thrown error) and returns.
Return(i, c, net, res, read) ==
  LET caught == CatchBlock(dom)
      after == IF c.threw THEN caught.dom ELSE Line16Assign(dom, c.v)
      wrote == IF c.threw THEN caught.wrote ELSE TRUE
      threw == c.threw /\ caught.threw
  IN /\ dom' = after
     /\ calls' = [calls EXCEPT ![i] =
          [ pc |-> "done", net |-> net, res |-> res, read |-> read,
            path |-> IF c.threw THEN "catch" ELSE "try",
            writes |-> IF wrote THEN @.writes + 1 ELSE @.writes,
            written |-> IF wrote THEN after.response ELSE @.written,
            settled |-> IF threw THEN "rejected" ELSE "fulfilled" ]]
     /\ order' = Append(order, i)

\* The response's status line and headers arrive: line 8 resumes with res;
\* line 15 calls res.json() and suspends while the body is read.
FetchResolve(i, status) ==
  /\ i \in 1..Len(calls)
  /\ calls[i].pc = "fetch"
  /\ calls' = [calls EXCEPT ![i] =
       [ @ EXCEPT !.pc = "json", !.net = "resolved",
           !.res = [status |-> status, body |-> <<>>] ]]
  /\ requests' = {r \in requests : r.by # i}
  /\ UNCHANGED <<dom, order>>

\* The promise of line 8 rejects (the request failed in the network).
FetchReject(i) ==
  /\ i \in 1..Len(calls)
  /\ calls[i].pc = "fetch"
  /\ requests' = {r \in requests : r.by # i}
  /\ Return(i, Throw, "rejected", NoResponse, "pending")

\* The body was read to its end: line 15 resumes with the parsed value or
\* throws the SyntaxError, and line 16 runs.
JsonSettle(i, body) ==
  /\ i \in 1..Len(calls)
  /\ calls[i].pc = "json"
  /\ LET res == [calls[i].res EXCEPT !.body = body]
         data == Line15(res)
     IN Return(i, IF data.threw THEN Throw ELSE Line16Text(data.v),
               "resolved", res, "ok")
  /\ UNCHANGED requests

\* Reading the body failed (the connection broke): res.json() rejects.
JsonReadError(i) ==
  /\ i \in 1..Len(calls)
  /\ calls[i].pc = "json"
  /\ Return(i, Throw, "resolved", calls[i].res, "error")
  /\ UNCHANGED requests

Next ==
  \/ \E text \in Texts : TypeInput(text)
  \/ SendMessage
  \/ \E i \in 1..MaxCalls, status \in Statuses : FetchResolve(i, status)
  \/ \E i \in 1..MaxCalls : FetchReject(i)
  \/ \E i \in 1..MaxCalls, body \in Bodies : JsonSettle(i, body)
  \/ \E i \in 1..MaxCalls : JsonReadError(i)

Spec == Init /\ [][Next]_vars

\* The hypothesis under which a call completes: every issued request
\* resolves or rejects, and every body read finishes.
FairSpec ==
  /\ Spec
  /\ \A i \in 1..MaxCalls :
       /\ WF_vars(FetchReject(i) \/ \E status \in Statuses : FetchResolve(i, status))
       /\ WF_vars(JsonReadError(i) \/ \E body \in Bodies : JsonSettle(i, body))

\* -------------------------------------------------------------- properties
Done(i) == i \in 1..Len(calls) /\ calls[i].pc = "done"
LastReturned == order[Len(order)]

\* The request object { message: text } as JSON.parse gives it back.
MessageObject(text) == ObjectWith(MessageKey, JStr(text))

\* C1: every invocation of sendMessage, whatever the input field holds,
\* issues exactly one POST request to /api/chat whose body parses to
\* { message: <the field's value at that moment> }; no other step issues or
\* alters a request, so a request in flight keeps that text when the field
\* is edited, and nothing is sent again after a failure.
C1_OneRequestWithTheTextAtInvocation ==
  [][ /\ Len(calls') = Len(calls) + 1 =>
           \E r \in requests' :
             /\ r \notin requests
             /\ requests' = requests \cup {r}
             /\ r.by = Len(calls')
             /\ r.url = "/api/chat"
             /\ r.method = "POST"
             /\ r.contentType = "application/json"
             /\ JSONParse(r.body).ok
             /\ JSONParse(r.body).v = MessageObject(dom.message)
      /\ Len(calls') = Len(calls) => requests' \subseteq requests
    ]_vars

\* C1 witness: a request for the empty text and a request for a text with
\* a backslash and a quote are in flight while the field already holds
\* another text.
C1_Witness ==
  /\ \E r \in requests : JSONParse(r.body).v = MessageObject(<<>>)
  /\ \E r \in requests : JSONParse(r.body).v = MessageObject(<<"\\", "\"">>)
  /\ dom.message = <<"a">>

\* C2: when the request resolves and the body read is {"response": r} with
\* r a text, the call assigns r to the output on line 16, and the output
\* holds r when that call is the one that returned last.
C2_ResponseTextShown ==
  \A i \in 1..Len(calls) : \A r \in ResponseTexts :
    (Done(i) /\ calls[i].read = "ok" /\ calls[i].res.body = BodyWithText(r))
      => /\ calls[i].path = "try"
         /\ calls[i].written = r
         /\ (LastReturned = i => dom.response = r)

\* C2 witness: a single call returned with {"response":"\""} and the output
\* shows the quote.
C2_Witness ==
  /\ Len(calls) = 1
  /\ Done(1)
  /\ calls[1].res.body = BodyWithText(<<"\"">>)
  /\ dom.response = <<"\"">>

\* The call failed in the network, or while its body was read, or its body
\* was not JSON.
RequestOrParseFailure(i) ==
  \/ calls[i].net = "rejected"
  \/ calls[i].read = "error"
  \/ calls[i].read = "ok" /\ calls[i].res.body \in MalformedBodies

\* C3: a call whose fetch rejects or whose body does not parse assigns the
\* fixed error text, the same one for every kind of failure, and the output
\* holds it when that call returned last, whatever it showed before.
C3_FailureShowsErrorText ==
  \A i \in 1..Len(calls) :
    (Done(i) /\ RequestOrParseFailure(i))
      => /\ calls[i].path = "catch"
         /\ calls[i].written = ErrorText
         /\ (LastReturned = i => dom.response = ErrorText)

\* C3 witness: a call showed "a", then a call whose fetch rejected returned
\* and the output is the error text; (a malformed body ends the same way).
C3_Witness ==
  /\ order = <<1, 2>>
  /\ calls[1].written = <<"a">>
  /\ calls[2].net = "rejected"
  /\ dom.response = ErrorText

\* The bodies that parse to an object whose response member converts to
\* text: a string, or absent.
ConvertibleObjectBodies ==
  {BodyWithText(r) : r \in ResponseTexts} \cup {EmptyObjectBody}

TextOfBody(body) ==
  IF body = EmptyObjectBody THEN UndefinedText
  ELSE CHOOSE r \in ResponseTexts : body = BodyWithText(r)

\* C4 as stated: for every status, a body that parses as a JSON object puts
\* the response member in the output, never the fixed error text.
C4_AsStated ==
  \A i \in 1..Len(calls) :
    (Done(i) /\ calls[i].read = "ok"
       /\ JSONParse(calls[i].res.body).ok
       /\ JSONParse(calls[i].res.body).v.t = "object")
      => /\ calls[i].path = "try"
         /\ calls[i].written # ErrorText

\* C4, amended: the status never influences the outcome: two calls that
\* read the same body under different statuses take the same path and write
\* the same text; for every status a body that parses to an object whose
\* response member converts to text is shown by line 16; the catch block is
\* reached after a completed read only for a body that is not JSON, for
\* null, or for a response member that cannot be converted to text.
C4_StatusNeverMatters ==
  /\ \A i, j \in 1..Len(calls) :
       (Done(i) /\ Done(j) /\ calls[i].read = "ok" /\ calls[j].read = "ok"
          /\ calls[i].res.body = calls[j].res.body)
         => /\ calls[i].path = calls[j].path
            /\ calls[i].written = calls[j].written
  /\ \A i \in 1..Len(calls) :
       (Done(i) /\ calls[i].read = "ok")
         => /\ calls[i].res.body \in ConvertibleObjectBodies
                 => /\ calls[i].path = "try"
                    /\ calls[i].written = TextOfBody(calls[i].res.body)
            /\ calls[i].path = "catch"
                 => calls[i].res.body \in
                      MalformedBodies \cup {NullBody, UnconvertibleBody}

\* C4 witness: the same body under 200 and under 500, both shown.
C4_Witness ==
  /\ Len(calls) = 2 /\ Done(1) /\ Done(2)
  /\ calls[1].res = [status |-> 500, body |-> BodyWithText(<<"a">>)]
  /\ calls[2].res = [status |-> 200, body |-> BodyWithText(<<"a">>)]
  /\ calls[1].written = <<"a">>
  /\ dom.response = <<"a">>

\* What the server did for call i.
ServerBehaviour(i) == <<calls[i].net, calls[i].res, calls[i].read>>

\* C5: two invocations that meet the same server behaviour leave the same
\* output text, each having written it once, whether they ran one after the
\* other or overlapped (the input text has no part in the result, so the
\* statement needs no condition on it).
C5_SameBehaviourSameOutput ==
  \A i, j \in 1..Len(calls) :
    (Done(i) /\ Done(j) /\ ServerBehaviour(i) = ServerBehaviour(j))
      => /\ calls[i].written = calls[j].written
         /\ calls[i].writes = 1 /\ calls[j].writes = 1
         /\ (LastReturned \in {i, j} => dom.response = calls[i].written)

\* C5 witness: two overlapping calls (the second returned first) read the
\* same body and the output is that text, once.
C5_Witness ==
  /\ order = <<2, 1>>
  /\ ServerBehaviour(1) = ServerBehaviour(2)
  /\ calls[1].res.body = BodyWithText(<<"a">>)
  /\ dom.response = <<"a">>

\* C6: invocations are not coordinated: every call awaiting fetch has a
\* request of its own in flight, and once calls have returned the output
\* holds what the call that returned last wrote, whichever was invoked
\* first.
C6_LastWriteWins ==
  /\ \A i \in 1..Len(calls) :
       calls[i].pc = "fetch" <=> (\E r \in requests : r.by = i)
  /\ Cardinality(requests) = Cardinality({i \in 1..Len(calls) : calls[i].pc = "fetch"})
  /\ order # <<>> => dom.response = calls[LastReturned].written

\* C6 witness: the first-invoked call returned after the second and its
\* result replaced the second's.
C6_Witness ==
  /\ order = <<2, 1>>
  /\ calls[2].written = ErrorText
  /\ calls[1].written = <<"a">>
  /\ dom.response = <<"a">>

\* C7: a call that returned wrote the output exactly once, on line 16 or in
\* the catch block and never both, and its promise is fulfilled; the catch
\* block writes the fixed error text, line 16 the text of the body's
\* response member; a call that has not returned has written nothing; a
\* body of null, whose response member cannot be read, ends in the error
\* text.
C7_ExactlyOneOutcome ==
  \A i \in 1..Len(calls) :
    /\ ~Done(i) => calls[i].writes = 0 /\ calls[i].settled = "pending"
                   /\ calls[i].path = "none"
    /\ Done(i) =>
         /\ calls[i].writes = 1
         /\ calls[i].settled = "fulfilled"
         /\ calls[i].path \in {"try", "catch"}
         /\ calls[i].path = "catch" => calls[i].written = ErrorText
         /\ calls[i].path = "try" =>
              /\ calls[i].read = "ok"
              /\ calls[i].res.body \in ConvertibleObjectBodies
              /\ calls[i].written = TextOfBody(calls[i].res.body)
         /\ (calls[i].read = "ok" /\ calls[i].res.body = NullBody)
              => calls[i].path = "catch"

\* C7 witness: a call that read null returned with the error text, and a
\* call that read a response returned with it.
C7_Witness ==
  /\ Len(calls) = 2 /\ Done(1) /\ Done(2)
  /\ calls[1].res.body = NullBody /\ calls[1].read = "ok"
  /\ calls[1].written = ErrorText
  /\ calls[2].path = "try"

\* C8: a body that parses to an object without a response member takes
\* line 16: the value assigned is undefined, which the output shows as the
\* text "undefined", not as the fixed error text.
C8_MissingFieldIsNotAnError ==
  \A i \in 1..Len(calls) :
    (Done(i) /\ calls[i].read = "ok" /\ calls[i].res.body = EmptyObjectBody)
      => /\ calls[i].path = "try"
         /\ calls[i].written = UndefinedText
         /\ calls[i].written # ErrorText
         /\ (LastReturned = i => dom.response = UndefinedText)

\* C8 witness: a call that read {} returned last.
C8_Witness ==
  /\ order # <<>>
  /\ calls[LastReturned].res.body = EmptyObjectBody
  /\ calls[LastReturned].read = "ok"
  /\ dom.response = UndefinedText

\* Call i made the step in which it returned.
Returns(i) == i \in 1..Len(calls) /\ calls[i].pc # "done" /\ calls'[i].pc = "done"

\* C9: there is no timeout and no cancellation: a call that has not
\* returned has written nothing, the output changes only in the step in
\* which a call returns, a call awaiting fetch stays there for as long as
\* its request is in flight, and a call awaiting the body returns only by
\* the body read ending; and when every request resolves or rejects and
\* every body read ends, every call made returns, having written once.
C9_NoTimeoutAndCompletion ==
  /\ [](\A i \in 1..Len(calls) : calls[i].pc # "done" => calls[i].writes = 0)
  /\ [][ /\ dom'.response # dom.response => \E i \in 1..Len(calls) : Returns(i)
         /\ \A i \in 1..Len(calls) :
              /\ (calls[i].pc = "fetch" /\ \E r \in requests' : r.by = i)
                   => calls'[i] = calls[i]
              /\ (calls[i].pc = "json" /\ calls'[i].read = "pending")
                   => calls'[i] = calls[i]
       ]_vars
  /\ <>[](\A i \in 1..Len(calls) : Done(i) /\ calls[i].writes = 1)

\* C9 witness: one call is still awaiting its request while another has
\* returned, and the output is what the returned call wrote.
C9_Witness ==
  /\ Len(calls) = 2
  /\ calls[1].pc = "fetch"
  /\ \E r \in requests : r.by = 1
  /\ Done(2)
  /\ dom.response = calls[2].written
  /\ calls[1].writes = 0

\* C10: no step of sendMessage, on line 16 or in the catch block, changes
\* the input field: a step that advances a call leaves the field's value as
\* it was, so the text that was sent is still there after the call returns.
C10_OnlyTheOutputChanges ==
  [][ calls' # calls =>
        /\ dom'.message = dom.message
        /\ dom' = [dom EXCEPT !.response = dom'.response]
        /\ (dom'.response # dom.response => \E i \in 1..Len(calls) : Returns(i))
    ]_vars

\* C10 witness: a call returned by line 16 and another by the catch block,
\* and the input field still holds the text that was typed.
C10_Witness ==
  /\ Len(calls) = 2 /\ Done(1) /\ Done(2)
  /\ calls[1].path = "try"
  /\ calls[2].path = "catch"
  /\ dom.message = <<"\\", "\"">>

====
